---- MODULE Spec2Model ----
(***************************************************************************)
(* Session / token lifecycle of the RBAC demo (roledbased_access.tsx):     *)
(* JWT helpers, MockAPI, the createHttp request helper and AuthProvider    *)
(* (React state, refreshRef, boot and persist effects).                    *)
(*                                                                         *)
(* A step of the model is one task of the event loop: a handler or the     *)
(* continuation of an async function, together with the re-render React    *)
(* schedules for its batched setState calls and the effects of that render.*)
(***************************************************************************)
EXTENDS Integers, Sequences, FiniteSets, TLC

\* ---------------------------------------------------------------- bounds
MaxNow == 120          \* the clock (epoch seconds) stops advancing here
TickStep == 60         \* seconds that pass in one Tick
MaxPwLen == 6          \* longest password tried

\* ------------------------------------------------------ program constants
TokenTTL == 60         \* lifetime of an access token, seconds
MinPwLen == 6          \* password policy of MockAPI.login

\* ------------------------------------------------ JavaScript values, text
Null == [kind |-> "null"]
Undefined == [kind |-> "undefined"]
Num(n) == [kind |-> "num", n |-> n]
Bool(b) == [kind |-> "bool", b |-> b]
Str(atoms) == [kind |-> "str", s |-> atoms]
Txt(c) == [t |-> "txt", v |-> [c |-> c]]
Dot == Txt(".")
JSONstringify(v) == [kind |-> "json", val |-> v]
NotJson == [kind |-> "text"]
JSONparseThrows(text) == text.kind # "json"
JSONparse(text) == text.val
btoa(text) == [t |-> "b64", v |-> text]

\* token.split("."): the sequence of dot-free segments of a string
RECURSIVE SplitFrom(_, _, _)
SplitFrom(atoms, i, cur) ==
  IF i > Len(atoms) THEN <<cur>>
  ELSE IF atoms[i] = Dot THEN <<cur>> \o SplitFrom(atoms, i + 1, <<>>)
  ELSE SplitFrom(atoms, i + 1, Append(cur, atoms[i]))

split(str) == SplitFrom(str.s, 1, <<>>)

\* atob(payload) followed by JSON.parse succeeds only on a segment that is
\* the base64 of a JSON text
atobParses(seg) ==
  /\ Len(seg) = 1
  /\ seg[1].t = "b64"
  /\ ~JSONparseThrows(seg[1].v)

\* ------------------------------------------------------------ JWT helpers
decodeJWT(token) ==
  IF token.kind # "str" THEN Null
  ELSE LET segs == split(token) IN
       IF Len(segs) < 2 THEN Null
       ELSE IF atobParses(segs[2]) THEN JSONparse(segs[2][1].v)
       ELSE Null

\* `!v`: null, undefined, false, 0 and the empty string are falsy
Falsy(v) ==
  \/ v = Null
  \/ v = Undefined
  \/ (v.kind = "bool" /\ ~v.b)
  \/ (v.kind = "num" /\ v.n = 0)
  \/ (v.kind = "str" /\ v.s = <<>>)

\* `v <= n` and `v > n` for a number n: a value that is not a number (here:
\* text that is not numeric) converts to NaN and every comparison is false
jsLE(v, n) == v.kind = "num" /\ v.n <= n
jsGT(v, n) == v.kind = "num" /\ v.n > n

\* `p?.exp`
optExp(p) == IF "exp" \in DOMAIN p THEN p.exp ELSE Undefined

isExpired(token, t) ==
  LET p == decodeJWT(token) IN
  IF Falsy(optExp(p)) THEN TRUE
  ELSE jsLE(optExp(p), t)

startsWith(str, c) == Len(str.s) > 0 /\ str.s[1] = Txt(c)

\* ------------------------------------------- ProtectedRoute demo helpers
\* decodeJWT of the ProtectedRoute demo
decodeJWTp(token) ==
  IF token.kind # "str" THEN Null
  ELSE LET segs == split(token) IN
       IF Len(segs) < 2 THEN Null
       ELSE IF atobParses(segs[2]) THEN JSONparse(segs[2][1].v)
       ELSE Null

\* `!data` for a parsed JSON value: an object is truthy
notData(data) == IF "kind" \in DOMAIN data THEN Falsy(data) ELSE FALSE

\* validateToken(token): the value `data.exp && data.exp > now`, or false
validateToken(token, t) ==
  LET data == decodeJWTp(token) IN
  IF notData(data) THEN Bool(FALSE)
  ELSE IF Falsy(optExp(data)) THEN optExp(data)
  ELSE Bool(jsGT(optExp(data), t))

\* ---------------------------------------------------------------- Mock API
Usernames == {"admin", "alice"}
Passwords == {Null} \cup {Str([i \in 1..n |-> Txt("s")]) : n \in {0, MinPwLen - 1, MaxPwLen}}

\* cryptoRandom(): a hex string, or (no crypto) a base-36 string, which may
\* begin with any of 0-9a-z
GoodRefresh == Str(<<Txt("a"), Txt("7")>>)
BadRefresh == Str(<<Txt("x"), Txt("k")>>)
CryptoRandomValues == {GoodRefresh, BadRefresh}

RolesOf(username) ==
  IF username = "admin" THEN <<"ADMIN", "USER">>
  ELSE IF username = "mod" \/ username = "moderator" THEN <<"MODERATOR", "USER">>
  ELSE <<"USER">>

MkAccessToken(claims) ==
  Str(<<Txt("header"), Dot, btoa(JSONstringify(claims)), Dot, Txt("signature")>>)

\* mutant: the length test off by one, a 5-character password passes
MockAPI_loginThrowsShort(username, password) ==
  Falsy(password) \/ Len(password.s) < MinPwLen - 1

MockAPI_loginThrows(username, password) ==
  Falsy(password) \/ Len(password.s) < MinPwLen

MockAPI_login(username, password, t, rnd) ==
  LET roles == RolesOf(username)
      u == [kind |-> "user", id |-> 1, name |-> username, roles |-> roles]
      exp == t + TokenTTL
  IN [user |-> u,
      accessToken |-> MkAccessToken([sub |-> u.id, name |-> u.name, roles |-> roles, exp |-> Num(exp)]),
      refreshToken |-> rnd]

MockAPI_refreshThrows(refreshToken) ==
  Falsy(refreshToken) \/ startsWith(refreshToken, "x")

MockAPI_refresh(refreshToken, t) ==
  LET exp == t + TokenTTL IN
  [accessToken |-> MkAccessToken([sub |-> 1, name |-> "demo", roles |-> <<"USER">>, exp |-> Num(exp)])]

\* ------------------------------------------------------------------ state
VARIABLES
  user, accessToken, loading,      \* useState values of AuthProvider
  refreshRef,                      \* refreshRef.current
  storage,                         \* localStorage["demo_auth"], Null if absent
  phase,                           \* "init" (mounted, effects not run), "ready", "crashed"
  now,                             \* Math.floor(Date.now() / 1000)
  lg,                              \* the login() call in flight
  rf,                              \* the tryRefresh() call made through the context
  g,                               \* the http.get() call in flight
  lastOp,                          \* "logout" when the last operation was logout()
  loggedOut,                       \* logout ran and no login was started since
  aux                              \* the synchronous evaluation of a guard or helper whose
                                   \* result its caller has not consumed yet, else NoAux

vars == <<user, accessToken, loading, refreshRef, storage, phase, now, lg, rf, g,
          lastOp, loggedOut, aux>>

\* ----------------------------------------------------- persisted snapshots
SavedUser == [kind |-> "user", id |-> 1, name |-> "alice", roles |-> <<"USER">>]
SavedToken == MkAccessToken([sub |-> 1, name |-> "alice", roles |-> <<"USER">>, exp |-> Num(TokenTTL)])
NoExpToken == MkAccessToken([sub |-> 1, name |-> "alice", roles |-> <<"USER">>])
MalformedToken == Str(<<Txt("garbage")>>)

Snapshot(u, at, rt) == [user |-> u, accessToken |-> at, refreshToken |-> rt]

InitStorage ==
  { Null,
    NotJson,
    JSONstringify(Null),
    JSONstringify([accessToken |-> SavedToken]),
    JSONstringify(Snapshot(SavedUser, SavedToken, GoodRefresh)),
    JSONstringify(Snapshot(SavedUser, NoExpToken, BadRefresh)),
    JSONstringify(Snapshot(SavedUser, MalformedToken, GoodRefresh)) }

IdleLogin == [pc |-> "idle", name |-> "", pw |-> Null, ret |-> "none", val |-> Null]
NoAux == [kind |-> "none"]
IdleRefresh == [pc |-> "idle", arg |-> Null, ret |-> "none"]
IdleGet == [pc |-> "idle", tok |-> Null, arg |-> Null, status |-> 0,
            attempts |-> 0, resourceCalls |-> 0, refreshCalls |-> 0,
            unauthorized |-> 0, startBad |-> FALSE, refreshed |-> "none",
            retryWithNew |-> FALSE]

Init ==
  /\ user = Null /\ accessToken = Null /\ loading = TRUE
  /\ refreshRef = Null
  /\ storage \in InitStorage
  /\ phase = "init"
  /\ now = 0
  /\ lg = IdleLogin /\ rf = IdleRefresh /\ g = IdleGet
  /\ lastOp = "other"
  /\ loggedOut = FALSE
  /\ aux = NoAux

\* `parsed.field ?? null`
Field(parsed, f) == IF f \in DOMAIN parsed THEN parsed[f] ELSE Null

\* mutant: the snapshot written without the refresh token
PersistedNoRefresh(u, at, rt) == JSONstringify(Snapshot(u, at, Null))

\* The persist effect: localStorage.setItem("demo_auth", JSON.stringify(...))
Persisted(u, at, rt) == JSONstringify(Snapshot(u, at, rt))

\* mutant: the effect compares the user by value, a new but equal user
\* object does not run it
afterRenderByValue(u1, at1, u2, at2, rt2, fresh, st) ==
  IF u2 # u1 \/ at2 # at1 THEN Persisted(u2, at2, rt2) ELSE st

\* The re-render after a task that left the state at <<u2, at2>> (u2 a new
\* object when fresh) and the store at st: the persist effect runs when
\* [user, accessToken] differ from those of the previous render <<u1, at1>>
afterRender(u1, at1, u2, at2, rt2, fresh, st) ==
  IF u2 # u1 \/ fresh \/ at2 # at1 THEN Persisted(u2, at2, rt2) ELSE st

\* The boot effect throws: JSON.parse fails, or yields null (parsed.user)
BootThrows(saved) ==
  /\ ~Falsy(saved)
  /\ (JSONparseThrows(saved) \/ JSONparse(saved) = Null)

\* Mount: the boot effect, the persist effect of the first render (whose
\* user and accessToken are null), then the re-render
Boot ==
  /\ phase = "init"
  /\ LET saved == storage IN
     IF BootThrows(saved)
     THEN /\ phase' = "crashed"
          /\ UNCHANGED <<user, accessToken, loading, refreshRef, storage>>
     ELSE LET parsed == IF Falsy(saved) THEN Snapshot(user, accessToken, refreshRef)
                        ELSE JSONparse(saved)
              u2 == Field(parsed, "user")
              at2 == Field(parsed, "accessToken")
              rt2 == Field(parsed, "refreshToken")
          IN /\ phase' = "ready"
             /\ user' = u2
             /\ accessToken' = at2
             /\ refreshRef' = rt2
             /\ loading' = FALSE
             /\ storage' = afterRender(user, accessToken, u2, at2, rt2,
                                       ~Falsy(saved) /\ u2 # Null,
                                       Persisted(user, accessToken, rt2))
  /\ lastOp' = "other"
  /\ aux = NoAux /\ UNCHANGED aux
  /\ UNCHANGED <<now, lg, rf, g, loggedOut>>

Tick ==
  /\ now + TickStep <= MaxNow
  /\ aux = NoAux
  /\ now' = now + TickStep
  /\ UNCHANGED <<user, accessToken, loading, refreshRef, storage, phase, lg, rf, g,
                 lastOp, loggedOut, aux>>

\* ------------------------------------------------------------ AuthProvider
\* login(): MockAPI.login is called; its timer is running
LoginStart(username, password) ==
  /\ phase = "ready"
  /\ lg.pc # "pending"
  /\ lg' = [pc |-> "pending", name |-> username, pw |-> password, ret |-> "none",
            val |-> Null]
  /\ lastOp' = "other"
  /\ aux = NoAux /\ UNCHANGED aux
  /\ loggedOut' = FALSE
  /\ UNCHANGED <<user, accessToken, loading, refreshRef, storage, phase, now, rf, g>>

\* MockAPI.login settles and login() resumes
LoginDone(rnd) ==
  /\ phase = "ready"
  /\ lg.pc = "pending"
  /\ IF MockAPI_loginThrows(lg.name, lg.pw)
     THEN /\ lg' = [IdleLogin EXCEPT !.pc = "done", !.ret = "throw"]
          /\ UNCHANGED <<user, accessToken, refreshRef, storage>>
     ELSE LET r == MockAPI_login(lg.name, lg.pw, now, rnd) IN
          /\ user' = r.user
          /\ accessToken' = r.accessToken
          /\ refreshRef' = r.refreshToken
          /\ storage' = afterRender(user, accessToken, r.user, r.accessToken,
                                    r.refreshToken, TRUE, storage)
          /\ lg' = [IdleLogin EXCEPT !.pc = "done", !.ret = "ok", !.val = r.user]
  /\ lastOp' = "other"
  /\ aux = NoAux /\ UNCHANGED aux
  /\ UNCHANGED <<loading, phase, now, rf, g, loggedOut>>

\* the body of logout() and the re-render it causes
logout ==
  /\ user' = Null
  /\ accessToken' = Null
  /\ refreshRef' = Null
  /\ storage' = afterRender(user, accessToken, Null, Null, Null, FALSE, Null)

Logout ==
  /\ phase = "ready"
  /\ logout
  /\ lastOp' = "logout"
  /\ aux = NoAux /\ UNCHANGED aux
  /\ loggedOut' = TRUE
  /\ UNCHANGED <<loading, phase, now, lg, rf, g>>

\* mutant: a refresh that also replaces the refresh token
tryRefreshRotates(arg, t, u, at, rt) ==
  IF MockAPI_refreshThrows(arg)
  THEN [ret |-> FALSE, user |-> u, accessToken |-> at, refreshToken |-> rt]
  ELSE [ret |-> TRUE, user |-> u,
        accessToken |-> MockAPI_refresh(arg, t).accessToken,
        refreshToken |-> MockAPI_refresh(arg, t).accessToken]

\* mutant: a refresh that clears the session when the backend rejects it
tryRefreshLogsOut(arg, t, u, at, rt) ==
  IF MockAPI_refreshThrows(arg)
  THEN [ret |-> FALSE, user |-> Null, accessToken |-> Null, refreshToken |-> Null]
  ELSE [ret |-> TRUE, user |-> u,
        accessToken |-> MockAPI_refresh(arg, t).accessToken, refreshToken |-> rt]

\* tryRefresh() once MockAPI.refresh(arg) has settled: what it returns and
\* what the session <<user, accessToken, refreshToken>> is afterwards
tryRefresh(arg, t, u, at, rt) ==
  IF MockAPI_refreshThrows(arg)
  THEN [ret |-> FALSE, user |-> u, accessToken |-> at, refreshToken |-> rt]
  ELSE [ret |-> TRUE, user |-> u,
        accessToken |-> MockAPI_refresh(arg, t).accessToken, refreshToken |-> rt]

\* tryRefresh() called through the context: MockAPI.refresh(refreshRef.current)
RefreshStart ==
  /\ phase = "ready"
  /\ rf.pc # "pending"
  /\ rf' = [pc |-> "pending", arg |-> refreshRef, ret |-> "none"]
  /\ lastOp' = "other"
  /\ aux = NoAux /\ UNCHANGED aux
  /\ UNCHANGED <<user, accessToken, loading, refreshRef, storage, phase, now, lg, g,
                 loggedOut>>

RefreshDone ==
  /\ phase = "ready"
  /\ rf.pc = "pending"
  /\ LET r == tryRefresh(rf.arg, now, user, accessToken, refreshRef) IN
     /\ user' = r.user
     /\ accessToken' = r.accessToken
     /\ refreshRef' = r.refreshToken
     /\ storage' = afterRender(user, accessToken, r.user, r.accessToken,
                               r.refreshToken, FALSE, storage)
     /\ rf' = [pc |-> "done", arg |-> Null, ret |-> IF r.ret THEN "true" ELSE "false"]
  /\ lastOp' = "other"
  /\ aux = NoAux /\ UNCHANGED aux
  /\ UNCHANGED <<loading, phase, now, lg, g, loggedOut>>

\* ----------------------------------------------------------- createHttp
\* fetchWithAuth answers 401 itself, without calling MockAPI.getSecret
fetchWithAuthLocal(token, t) == Falsy(token) \/ isExpired(token, t)

\* mutant: a getter that reads the token the refresh has just set
getAccessTokenLive(closure, live) == live

\* getAccessToken: () => accessToken, the accessToken of the render that
\* built this http object; live is the value the latest setAccessToken set
getAccessToken(closure, live) == closure

\* get(url) up to its first suspension: fetchWithAuth(url, token) and, on a
\* local 401, tryRefresh() calling MockAPI.refresh(refreshRef.current)
getStart(tok, rt, t) ==
  IF fetchWithAuthLocal(tok, t)
  THEN [IdleGet EXCEPT !.pc = "refresh", !.tok = tok, !.arg = rt, !.attempts = 1,
                       !.refreshCalls = 1, !.startBad = TRUE]
  ELSE [IdleGet EXCEPT !.pc = "fetch1", !.tok = tok, !.attempts = 1,
                       !.resourceCalls = 1]

\* mutant: the status test inverted, a 200 goes on to the refresh
getAfterSecretRefreshes(gs) ==
  [gs EXCEPT !.pc = "refresh", !.refreshCalls = @ + 1, !.tok = Null]

\* get(url) resumed with the response of MockAPI.getSecret (always ok): res1
\* or res2 has status 200 and is returned
getAfterSecret(gs) == [gs EXCEPT !.pc = "done", !.status = 200, !.tok = Null]

\* mutant: a failed refresh returns res1 without calling onUnauthorized
getAfterRefreshSilent(gs, refreshed, live, t) ==
  IF ~refreshed
  THEN [gs EXCEPT !.pc = "done", !.status = 401, !.refreshed = "failed",
                  !.tok = Null, !.arg = Null]
  ELSE LET token == getAccessToken(gs.tok, live) IN
       IF fetchWithAuthLocal(token, t)
       THEN [gs EXCEPT !.pc = "done", !.status = 401, !.attempts = @ + 1,
                       !.unauthorized = @ + 1, !.refreshed = "ok",
                       !.retryWithNew = (token = live), !.tok = Null, !.arg = Null]
       ELSE [gs EXCEPT !.pc = "fetch2", !.attempts = @ + 1, !.resourceCalls = @ + 1,
                       !.refreshed = "ok", !.retryWithNew = (token = live),
                       !.arg = Null]

\* mutant: a second 401 is returned without calling onUnauthorized
getAfterRefreshQuiet(gs, refreshed, live, t) ==
  IF ~refreshed
  THEN [gs EXCEPT !.pc = "done", !.status = 401, !.unauthorized = @ + 1,
                  !.refreshed = "failed", !.tok = Null, !.arg = Null]
  ELSE LET token == getAccessToken(gs.tok, live) IN
       IF fetchWithAuthLocal(token, t)
       THEN [gs EXCEPT !.pc = "done", !.status = 401, !.attempts = @ + 1,
                       !.refreshed = "ok",
                       !.retryWithNew = (token = live), !.tok = Null, !.arg = Null]
       ELSE [gs EXCEPT !.pc = "fetch2", !.attempts = @ + 1, !.resourceCalls = @ + 1,
                       !.refreshed = "ok", !.retryWithNew = (token = live),
                       !.arg = Null]

\* mutant: a second 401 is answered with one more refresh
getAfterRefreshAgain(gs, refreshed, live, t) ==
  IF ~refreshed
  THEN [gs EXCEPT !.pc = "done", !.status = 401, !.unauthorized = @ + 1,
                  !.refreshed = "failed", !.tok = Null, !.arg = Null]
  ELSE LET token == getAccessToken(gs.tok, live) IN
       IF fetchWithAuthLocal(token, t)
       THEN IF gs.refreshCalls < 2
            THEN [gs EXCEPT !.attempts = @ + 1, !.refreshCalls = @ + 1,
                            !.refreshed = "ok", !.retryWithNew = (token = live)]
            ELSE [gs EXCEPT !.pc = "done", !.status = 401, !.attempts = @ + 1,
                            !.unauthorized = @ + 1, !.refreshed = "ok",
                            !.retryWithNew = (token = live), !.tok = Null, !.arg = Null]
       ELSE [gs EXCEPT !.pc = "fetch2", !.attempts = @ + 1, !.resourceCalls = @ + 1,
                       !.refreshed = "ok", !.retryWithNew = (token = live),
                       !.arg = Null]

\* get(url) resumed with the result of tryRefresh()
getAfterRefresh(gs, refreshed, live, t) ==
  IF ~refreshed
  THEN [gs EXCEPT !.pc = "done", !.status = 401, !.unauthorized = @ + 1,
                  !.refreshed = "failed", !.tok = Null, !.arg = Null]
  ELSE LET token == getAccessToken(gs.tok, live) IN
       IF fetchWithAuthLocal(token, t)
       THEN [gs EXCEPT !.pc = "done", !.status = 401, !.attempts = @ + 1,
                       !.unauthorized = @ + 1, !.refreshed = "ok",
                       !.retryWithNew = (token = live), !.tok = Null, !.arg = Null]
       ELSE [gs EXCEPT !.pc = "fetch2", !.attempts = @ + 1, !.resourceCalls = @ + 1,
                       !.refreshed = "ok", !.retryWithNew = (token = live),
                       !.arg = Null]

GetStart ==
  /\ phase = "ready"
  /\ g.pc \in {"idle", "done"}
  /\ g' = getStart(accessToken, refreshRef, now)
  /\ lastOp' = "other"
  /\ aux = NoAux /\ UNCHANGED aux
  /\ UNCHANGED <<user, accessToken, loading, refreshRef, storage, phase, now, lg, rf,
                 loggedOut>>

GetSecretDone ==
  /\ phase = "ready"
  /\ g.pc \in {"fetch1", "fetch2"}
  /\ g' = getAfterSecret(g)
  /\ lastOp' = "other"
  /\ aux = NoAux /\ UNCHANGED aux
  /\ UNCHANGED <<user, accessToken, loading, refreshRef, storage, phase, now, lg, rf,
                 loggedOut>>

GetRefreshDone ==
  /\ phase = "ready"
  /\ g.pc = "refresh"
  /\ LET r == tryRefresh(g.arg, now, user, accessToken, refreshRef)
         g2 == getAfterRefresh(g, r.ret, r.accessToken, now)
     IN /\ g' = g2
        /\ IF g2.unauthorized > g.unauthorized
           THEN /\ logout
                /\ loggedOut' = TRUE
           ELSE /\ user' = r.user
                /\ accessToken' = r.accessToken
                /\ refreshRef' = r.refreshToken
                /\ storage' = afterRender(user, accessToken, r.user, r.accessToken,
                                          r.refreshToken, FALSE, storage)
                /\ UNCHANGED loggedOut
  /\ lastOp' = "other"
  /\ aux = NoAux /\ UNCHANGED aux
  /\ UNCHANGED <<loading, phase, now, lg, rf>>

\* ------------------------------------------------- roles and route guards
Arr(a) == [kind |-> "arr", a |-> a]
RoleSets == {Undefined, Arr(<<>>), Arr(<<"ADMIN">>), Arr(<<"MODERATOR", "USER">>)}
Locations == {"/dashboard", "/admin"}

\* `user?.roles ?? []`
currentRoles(u) == IF "roles" \in DOMAIN u THEN u.roles ELSE <<>>

\* mutant: every required role must be held (every instead of some)
hasAnyRoleEvery(roles, u) ==
  IF Falsy(roles) \/ Len(roles.a) = 0 THEN TRUE
  ELSE LET current == currentRoles(u) IN
       \A i \in 1..Len(roles.a) : \E j \in 1..Len(current) : current[j] = roles.a[i]

hasAnyRole(roles, u) ==
  IF Falsy(roles) \/ Len(roles.a) = 0 THEN TRUE
  ELSE LET current == currentRoles(u) IN
       \E i \in 1..Len(roles.a) : \E j \in 1..Len(current) : current[j] = roles.a[i]

ScreenMsg == [show |-> "ScreenMsg", to |-> "", from |-> ""]
Navigate(to, from) == [show |-> "Navigate", to |-> to, from |-> from]
Outlet == [show |-> "Outlet", to |-> "", from |-> ""]

\* mutant: the guard without its loading test
RequireAuthNoLoading(u, at, ld, t, location) ==
  IF Falsy(u) \/ Falsy(at) \/ isExpired(at, t) THEN Navigate("/login", location)
  ELSE Outlet

\* mutant: the guard without its expiry test
RequireAuthNoExpiry(u, at, ld, t, location) ==
  IF ld THEN ScreenMsg
  ELSE IF Falsy(u) \/ Falsy(at) THEN Navigate("/login", location)
  ELSE Outlet

RequireAuth(u, at, ld, t, location) ==
  IF ld THEN ScreenMsg
  ELSE IF Falsy(u) \/ Falsy(at) \/ isExpired(at, t) THEN Navigate("/login", location)
  ELSE Outlet

RequireRoles(roles, u) ==
  IF ~hasAnyRole(roles, u) THEN Navigate("/403", "") ELSE Outlet

\* The role gate is a child route of the authentication gate: it is rendered
\* only where RequireAuth renders its Outlet
RoleGateMounted == \E l \in Locations : RequireAuth(user, accessToken, loading, now, l) = Outlet

\* hasAnyRole(roles) called through the context
CallHasAnyRole(roles) ==
  /\ phase # "crashed"
  /\ aux = NoAux
  /\ aux' = [kind |-> "hasAnyRole", roles |-> roles, loc |-> "", view |-> Outlet,
             ret |-> hasAnyRole(roles, user)]
  /\ UNCHANGED <<user, accessToken, loading, refreshRef, storage, phase, now, lg, rf, g,
                 lastOp, loggedOut>>

\* <RequireAuth /> rendered at a location
RenderRequireAuth(location) ==
  /\ phase # "crashed"
  /\ aux = NoAux
  /\ aux' = [kind |-> "RequireAuth", roles |-> Undefined, loc |-> location,
             view |-> RequireAuth(user, accessToken, loading, now, location),
             ret |-> FALSE]
  /\ UNCHANGED <<user, accessToken, loading, refreshRef, storage, phase, now, lg, rf, g,
                 lastOp, loggedOut>>

\* <RequireRoles roles={roles} /> rendered
RenderRequireRoles(roles) ==
  /\ phase # "crashed"
  /\ RoleGateMounted
  /\ aux = NoAux
  /\ aux' = [kind |-> "RequireRoles", roles |-> roles, loc |-> "",
             view |-> RequireRoles(roles, user), ret |-> FALSE]
  /\ UNCHANGED <<user, accessToken, loading, refreshRef, storage, phase, now, lg, rf, g,
                 lastOp, loggedOut>>

\* ------------------------------------------------ the token checks alone
NotRun == [kind |-> "notrun"]
Claims(exp) == [sub |-> 1, name |-> "demo", roles |-> <<"USER">>, exp |-> exp]

TokenInputs ==
  { Null,
    Str(<<>>),
    MalformedToken,
    Str(<<Txt("header"), Dot, Txt("payload"), Dot, Txt("signature")>>),
    Str(<<Txt("header"), Dot, btoa(NotJson), Dot, Txt("signature")>>),
    Str(<<Txt("header"), Dot, btoa(JSONstringify(Null))>>),
    Str(<<Txt("header"), Dot, btoa(JSONstringify(Num(TokenTTL)))>>),
    NoExpToken,
    MkAccessToken(Claims(Num(0))),
    MkAccessToken(Claims(Num(TokenTTL))),
    MkAccessToken(Claims(Num(MaxNow + TokenTTL))),
    MkAccessToken(Claims(Str(<<Txt("s"), Txt("o"), Txt("o"), Txt("n")>>))) }

TokenTimes == {0, TokenTTL - 1, TokenTTL, MaxNow}

TokenInit ==
  /\ user = Null /\ accessToken = Null /\ loading = TRUE
  /\ refreshRef = Null
  /\ storage = Null
  /\ phase = "init"
  /\ now \in TokenTimes
  /\ lg = IdleLogin /\ rf = IdleRefresh /\ g = IdleGet
  /\ lastOp = "other"
  /\ loggedOut = FALSE
  /\ aux \in {[kind |-> "token", token |-> T, isExpired |-> NotRun,
               validateToken |-> NotRun] : T \in TokenInputs}

ApplyIsExpired ==
  /\ aux.kind = "token"
  /\ aux.isExpired = NotRun
  /\ aux' = [aux EXCEPT !.isExpired = Bool(isExpired(aux.token, now))]
  /\ UNCHANGED <<user, accessToken, loading, refreshRef, storage, phase, now, lg, rf, g,
                 lastOp, loggedOut>>

ApplyValidateToken ==
  /\ aux.kind = "token"
  /\ aux.validateToken = NotRun
  /\ aux' = [aux EXCEPT !.validateToken = validateToken(aux.token, now)]
  /\ UNCHANGED <<user, accessToken, loading, refreshRef, storage, phase, now, lg, rf, g,
                 lastOp, loggedOut>>

\* the caller of the evaluation takes its result; everything above runs to
\* completion before another task does
Consume ==
  /\ aux # NoAux
  /\ aux' = NoAux
  /\ UNCHANGED <<user, accessToken, loading, refreshRef, storage, phase, now, lg, rf, g,
                 lastOp, loggedOut>>

\* ---------------------------------------------------------- specification
Next ==
  \/ Boot
  \/ Tick
  \/ \E username \in Usernames, password \in Passwords : LoginStart(username, password)
  \/ \E rnd \in CryptoRandomValues : LoginDone(rnd)
  \/ Logout
  \/ RefreshStart
  \/ RefreshDone
  \/ GetStart
  \/ GetSecretDone
  \/ GetRefreshDone

Spec == Init /\ [][Next]_vars

\* every backend call settles (the MockAPI timers fire)
FairSpec == Spec /\ WF_vars(GetSecretDone) /\ WF_vars(GetRefreshDone)

\* the session operations together with the evaluations of the guards
GuardNext ==
  \/ Next
  \/ \E roles \in RoleSets : CallHasAnyRole(roles)
  \/ \E location \in Locations : RenderRequireAuth(location)
  \/ \E roles \in RoleSets : RenderRequireRoles(roles)
  \/ Consume

GuardSpec == Init /\ [][GuardNext]_vars

\* isExpired and validateToken applied to a token at a time
TokenNext == ApplyIsExpired \/ ApplyValidateToken

TokenSpec == TokenInit /\ [][TokenNext]_vars

TypeOK ==
  /\ phase \in {"init", "ready", "crashed"}
  /\ g.pc \in {"idle", "fetch1", "refresh", "fetch2", "done"}
  /\ now \in 0..MaxNow

\* ------------------------------------------------------------- properties
Empty == user = Null /\ accessToken = Null /\ refreshRef = Null
InFlight == g.pc \in {"fetch1", "refresh", "fetch2"}

C2_RetryWithNewToken ==
  (g.pc = "done" /\ g.startBad /\ g.refreshed = "ok") =>
    /\ g.attempts = 2
    /\ g.refreshCalls = 1
    /\ g.retryWithNew
    /\ g.status = 200

\* C3: when the first attempt is a 401 and the refresh fails, get() returns
\* the 401, has called logout exactly once (the session is cleared) and has
\* made no second attempt.
C3_RefreshFailed ==
  [][(g.pc = "refresh" /\ g'.pc = "done" /\ MockAPI_refreshThrows(g.arg)) =>
       /\ g'.status = 401
       /\ g'.unauthorized = 1
       /\ g'.attempts = 1
       /\ g'.resourceCalls = 0
       /\ user' = Null /\ accessToken' = Null /\ refreshRef' = Null]_vars

C3_Witness == g.pc = "done" /\ g.refreshed = "failed" /\ g.status = 401

\* C4: every get() returns once its backend calls settle, having invoked
\* refresh at most once and made at most two attempts.
C4_Terminates ==
  /\ [](g.refreshCalls <= 1 /\ g.attempts <= 2 /\ g.resourceCalls <= g.attempts)
  /\ (InFlight ~> g.pc = "done")

C4_Witness == g.pc = "done" /\ g.attempts = 2 /\ g.refreshCalls = 1 /\ g.status = 401

\* C5: a get() that starts with a present, unexpired access token returns
\* the backend's success after one resource call, without refresh or logout.
C5_ValidToken ==
  (g.pc = "done" /\ ~g.startBad) =>
    /\ g.status = 200
    /\ g.attempts = 1
    /\ g.resourceCalls = 1
    /\ g.refreshCalls = 0
    /\ g.unauthorized = 0

C5_Witness == g.pc = "done" /\ ~g.startBad /\ g.status = 200

\* C6: after logout() and its re-render the session is empty and the
\* demo_auth key is absent from the store.
C6_LogoutClears == lastOp = "logout" => (Empty /\ storage = Null)

\* C7: a second logout() leaves the session and the store as the first did.
C7_LogoutIdempotent ==
  [][(lastOp = "logout" /\ Logout) =>
       UNCHANGED <<user, accessToken, refreshRef, storage>>]_vars

\* C8: once logout has run, the session stays empty until a login is started,
\* whatever login or refresh was pending when it ran.
C8_NoResurrection == loggedOut => Empty

\* C9: a tryRefresh() whose backend call succeeds returns true and leaves
\* user and the refresh token as they were.
C9_RefreshFrame ==
  [][(rf.pc = "pending" /\ rf'.pc = "done" /\ ~MockAPI_refreshThrows(rf.arg)) =>
       /\ rf'.ret = "true"
       /\ accessToken' = MockAPI_refresh(rf.arg, now).accessToken
       /\ user' = user
       /\ refreshRef' = refreshRef]_vars

C9_Witness == rf.pc = "done" /\ rf.ret = "true" /\ user # Null /\ refreshRef # Null

\* C10: a tryRefresh() whose refresh token is absent or rejected returns
\* false and leaves user, accessToken, the refresh token and the store as
\* they were.
C10_RefreshFailure ==
  [][(rf.pc = "pending" /\ rf'.pc = "done" /\ MockAPI_refreshThrows(rf.arg)) =>
       /\ rf'.ret = "false"
       /\ UNCHANGED <<user, accessToken, refreshRef, storage>>]_vars

C10_Witness == rf.pc = "done" /\ rf.ret = "false" /\ user # Null /\ refreshRef # Null

\* C11: a login() whose password is absent or shorter than 6 characters
\* fails with the error of MockAPI.login and leaves user, accessToken and the
\* refresh token as they were.
ShortPassword(pw) == pw = Null \/ Len(pw.s) < 6

C11_ShortPasswordRejected ==
  [][(lg.pc = "pending" /\ lg'.pc = "done" /\ ShortPassword(lg.pw)) =>
       /\ lg'.ret = "throw"
       /\ UNCHANGED <<user, accessToken, refreshRef>>]_vars

C11_Witness == lg.pc = "done" /\ lg.ret = "throw" /\ user # Null

\* C12: a login() whose password passes replaces user, accessToken and the
\* refresh token by what MockAPI.login returned, returns that user, and the
\* snapshot written afterwards holds exactly those three values.
C12_LoginReplacesSession ==
  [][(lg.pc = "pending" /\ lg'.pc = "done" /\ ~ShortPassword(lg.pw)) =>
       /\ lg'.ret = "ok"
       /\ lg'.val = user'
       /\ user' = [kind |-> "user", id |-> 1, name |-> lg.name, roles |-> RolesOf(lg.name)]
       /\ optExp(decodeJWT(accessToken')) = Num(now + TokenTTL)
       /\ refreshRef' \in CryptoRandomValues
       /\ storage' = JSONstringify([user |-> user', accessToken |-> accessToken',
                                    refreshToken |-> refreshRef'])]_vars

C12_Witness ==
  /\ lg.pc = "done" /\ lg.ret = "ok" /\ lg.val = user
  /\ storage = JSONstringify([user |-> user, accessToken |-> accessToken,
                              refreshToken |-> refreshRef])

\* C13: hasAnyRole(R) is true iff R is absent or empty or shares a role with
\* the roles of the current user; without a user it is true for the empty R
\* and false for any other.
RoleSet(roles) == IF roles = Undefined THEN {} ELSE {roles.a[i] : i \in DOMAIN roles.a}
UserRoleSet == IF user = Null THEN {} ELSE {user.roles[i] : i \in DOMAIN user.roles}

C13_HasAnyRole ==
  [][(aux'.kind = "hasAnyRole") =>
       (aux'.ret <=> (RoleSet(aux'.roles) = {} \/ RoleSet(aux'.roles) \cap UserRoleSet # {}))]_vars

C13_Witness ==
  /\ aux.kind = "hasAnyRole" /\ ~aux.ret
  /\ user # Null /\ RoleSet(aux.roles) # {}

\* C15: with loading false, RequireAuth renders its Outlet iff a user and an
\* access token are present and the token is not expired at that moment;
\* otherwise it navigates to /login with the requested location.
C15_AuthGate ==
  [][(aux'.kind = "RequireAuth" /\ ~loading) =>
       IF user # Null /\ accessToken # Null /\ ~isExpired(accessToken, now)
       THEN aux'.view = Outlet
       ELSE /\ aux'.view.show = "Navigate"
            /\ aux'.view.to = "/login"
            /\ aux'.view.from = aux'.loc]_vars

C15_Witness ==
  /\ aux.kind = "RequireAuth" /\ aux.view.show = "Navigate"
  /\ user # Null /\ accessToken # Null /\ isExpired(accessToken, now)

Decoded == decodeJWT(aux.token)
HasExp == Decoded # Null /\ "exp" \in DOMAIN Decoded
ExpAtMostNow == HasExp /\ Decoded.exp.kind = "num" /\ Decoded.exp.n <= now
ExpAfterNow == HasExp /\ Decoded.exp.kind = "num" /\ Decoded.exp.n > now

C14_IsExpired ==
  (aux.kind = "token" /\ aux.isExpired # NotRun) =>
    /\ (Decoded = Null \/ ~HasExp \/ ExpAtMostNow) => aux.isExpired = Bool(TRUE)
    /\ (aux.isExpired = Bool(FALSE)) <=> ExpAfterNow

\* C19: validateToken(T) is truthy iff isExpired(T) is false.
C19_ChecksAgree ==
  (aux.kind = "token" /\ aux.isExpired # NotRun /\ aux.validateToken # NotRun) =>
    (~Falsy(aux.validateToken) <=> aux.isExpired = Bool(FALSE))

\* C17: startup restoration always completes: loading becomes false, and
\* with a missing or unparsable snapshot the session is empty.
C17_RestoreCompletes ==
  [][(phase = "init" /\ phase' # "init") =>
       /\ phase' = "ready"
       /\ loading' = FALSE
       /\ (storage = Null \/ JSONparseThrows(storage)) =>
            (user' = Null /\ accessToken' = Null /\ refreshRef' = Null)]_vars

\* C18: after startup restore, a successful login and a successful refresh
\* (with the persist effect run) the stored snapshot is exactly the session
\* in memory.
SessionMutated ==
  \/ phase = "init" /\ phase' = "ready"
  \/ lg.pc = "pending" /\ lg'.pc = "done" /\ lg'.ret = "ok"
  \/ rf.pc = "pending" /\ rf'.pc = "done" /\ rf'.ret = "true"

C18_SnapshotIsSession ==
  [][SessionMutated =>
       storage' = JSONstringify([user |-> user', accessToken |-> accessToken',
                                 refreshToken |-> refreshRef'])]_vars

C18_Witness ==
  /\ rf.pc = "done" /\ rf.ret = "true"
  /\ user # Null /\ refreshRef # Null
  /\ storage = JSONstringify([user |-> user, accessToken |-> accessToken,
                              refreshToken |-> refreshRef])
  /\ decodeJWT(accessToken).name = "demo"

\* C20: a get() calls logout at most once, and exactly when the status it
\* returns is 401.
C20_LogoutIffUnauthorized ==
  /\ g.unauthorized <= 1
  /\ g.pc = "done" => (g.unauthorized = 1 <=> g.status = 401)
  /\ g.pc # "done" => g.unauthorized = 0

C20_Witness ==
  g.pc = "done" /\ g.status = 401 /\ g.unauthorized = 1 /\ g.attempts = 2

\* C21: in every state after restoration the session is all-or-nothing:
\* user is present iff the access token is present iff the refresh token is
\* present.
C21_AllOrNothing ==
  phase = "ready" =>
    /\ (user # Null <=> accessToken # Null)
    /\ (accessToken # Null <=> refreshRef # Null)

====
